---- MODULE Spec2Model ----
(***************************************************************************)
(* Model of package gcloudvoice (transcribe.go): Client.TranscribeURL,     *)
(* splitWavChannels and transcribeChannel, with the storage bucket, the    *)
(* ffmpeg subprocess and the speech recognizer as their environment.       *)
(***************************************************************************)
EXTENDS Integers, Sequences, FiniteSets, TLC

\* Stereo frames in the fetched recording.
MaxChunks == 3
\* Results in one recognizer response.
MaxResults == 2
\* Frames the stdin pipe of the subprocess holds before a write blocks.
PipeCap == 1

VARIABLES
    c,          \* Client options: StoreOriginal, MakeOriginalPublic, KeepIntermediateFiles
    resp,       \* http.Get: [status, len, pos, body]; pos = frames of resp.Body read
    pc,         \* position of TranscribeURL
    defers,     \* stack of deferred closures of TranscribeURL (last is run first)
    writers,    \* origObjW, leftW, rightW: [state, buf]
    bucket,     \* objects of the storage bucket: [exists, content, public]
    cmd,        \* the ffmpeg subprocess: [state, stdin, exit, consumed]
    stdinPipe,  \* frames written to stdin and not yet read by ffmpeg
    task,       \* the two goroutines of transcribeGrp
    grp,        \* transcribeGrp: first error returned by a goroutine
    recvd,      \* values received from leftMsgs and rightMsgs
    msgs,       \* result msgs of TranscribeURL
    rerr,       \* result rerr of TranscribeURL: sequence of errors, <<>> is nil
    ops,        \* history: storage, subprocess and recognizer calls, in order
    ctx,        \* the caller's context: "live" or "cancelled"
    outPipe,    \* frames ffmpeg wrote to pipe:1 and pipe:2, not yet copied to a writer
    peer,       \* a second TranscribeURL call on the same bucket and name
    parse       \* one call of the result loop of transcribeChannel: [results, chn, out]

vars == <<c, resp, pc, defers, writers, bucket, cmd, stdinPipe, task, grp,
          recvd, msgs, rerr, ops, ctx, outPipe, peer, parse>>

Sides == {"left", "right"}
Objects == {"orig", "left", "right"}

\* origName, leftName, rightName
ObjectName(o) ==
    CASE o = "orig" -> "name.wav"
      [] o = "left" -> "name.left.wav"
      [] o = "right" -> "name.right.wav"

NoObject == [exists |-> FALSE, content |-> <<>>, public |-> FALSE]
NoWriter == [state |-> "nil", buf |-> <<>>]
NoCmd == [state |-> "none", stdin |-> "none", exit |-> "none", consumed |-> 0]
NoTask == [pc |-> "idle", audio |-> "none", msgs |-> <<>>, err |-> "nil"]

\* The errors TranscribeURL and its helpers construct.
ErrGet == "unable to GET url"
ErrSplit == "splitting wav"
ErrCloseLeft == "closing left gcloud storage writer"
ErrCloseRight == "closing right gcloud storage writer"
ErrTranscribing(e) == "transcribing: " \o e
ErrMakingPublic == "making public: original file"
ErrSaving == "saving: original file"
ErrDeletingLeft == "deleting: left channel file"
ErrDeletingRight == "deleting: right channel file"

\* A slip: the new error replaces what rerr held instead of being appended.
OverwriteErr(err, e) == <<e>>

\* multierror.Append(rerr, e)
MultiAppend(err, e) == Append(err, e)

\* A frame of the stereo recording, and the mono sample of one of its channels.
StereoFrame(n) == [ch |-> "stereo", n |-> n]
MonoFrame(ch, n) == [ch |-> ch, n |-> n]

\* ffmpeg -map_channel 0.0.<id>: channel 0 of a stereo stream is front left,
\* channel 1 is front right.
MapChannel(id) == IF id = 0 THEN "FL" ELSE "FR"

\* Message.Channel as documented: 0 (false) is the left channel, 1 (true) the right.
DocChannel(ch) == ch = "FR"

\* A Client and a call of TranscribeURL that has not yet taken a step.
Constructed ==
    /\ c \in [StoreOriginal : BOOLEAN, MakeOriginalPublic : BOOLEAN,
              KeepIntermediateFiles : BOOLEAN]
    /\ resp = [status |-> "none", len |-> 0, pos |-> 0, body |-> "none"]
    /\ pc = "get"
    /\ defers = <<>>
    /\ writers = [o \in Objects |-> NoWriter]
    /\ bucket = [o \in Objects |-> NoObject]
    /\ cmd = NoCmd
    /\ stdinPipe = 0
    /\ task = [s \in Sides |-> NoTask]
    /\ grp = "nil"
    /\ recvd = [s \in Sides |-> <<>>]
    /\ msgs = <<>>
    /\ rerr = <<>>
    /\ ops = <<>>
    /\ ctx = "live"
    /\ outPipe = [fd \in {1, 2} |-> <<>>]

\* One call of TranscribeURL; no other call uses the bucket.
Init ==
    /\ Constructed
    /\ peer = "absent"
    /\ parse = "none"

\* The caller cancels ctx while TranscribeURL runs.
Cancel ==
    /\ ctx = "live"
    /\ pc # "returned"
    /\ ctx' = "cancelled"
    /\ UNCHANGED <<c, resp, pc, defers, writers, bucket, cmd, stdinPipe, task, grp,
                   recvd, msgs, rerr, ops, outPipe, peer, parse>>

\* A storage or speech call that was given ctx fails once ctx is cancelled.
\* http.Get, exec.Command, io.Copy and cmd.Wait are not given ctx.
CtxAllows(outcome) == ctx = "cancelled" => outcome = "fail"

\* A return statement: the results are set, then the deferred closures run.
Return(m, e) ==
    /\ msgs' = m
    /\ rerr' = e
    /\ pc' = "defers"

\* http.Get returns an error only when no response was obtained; a response
\* with a non-2xx status is returned with a nil error.
GetFails(status) == status = "neterr"

\* resp, err := http.Get(url)
Get ==
    /\ pc = "get"
    /\ \E status \in {"ok", "neterr", "badstatus"}, len \in {MaxChunks} :
         IF GetFails(status)
         THEN /\ resp' = [status |-> status, len |-> 0, pos |-> 0, body |-> "none"]
              /\ Return(<<>>, <<ErrGet>>)
              /\ UNCHANGED defers
         ELSE /\ resp' = [status |-> status, len |-> len, pos |-> 0, body |-> "open"]
              /\ defers' = <<"bodyClose">>
              /\ pc' = "setup"
              /\ UNCHANGED <<msgs, rerr>>
    /\ UNCHANGED <<c, ctx, outPipe, peer, parse, writers, bucket, cmd, stdinPipe, task, grp, recvd, ops>>

\* A slip: the cleanup of the channel objects is deferred when the files are
\* to be kept instead of when they are not.
SetupDefersKeepInverted(opts) ==
    (IF opts.StoreOriginal
     THEN (IF opts.MakeOriginalPublic THEN <<"acl">> ELSE <<>>) \o <<"closeOrig">>
     ELSE <<>>)
    \o (IF opts.KeepIntermediateFiles THEN <<"delete">> ELSE <<>>)

\* A slip: the ACL change is not deferred, so no return path runs it.
SetupDefersAclNotDeferred(opts) ==
    (IF opts.StoreOriginal THEN <<"closeOrig">> ELSE <<>>)
    \o (IF ~opts.KeepIntermediateFiles THEN <<"delete">> ELSE <<>>)

\* A slip: the ACL change is deferred after the close of the original's
\* writer, so it runs before it.
SetupDefersAclBeforeClose(opts) ==
    (IF opts.StoreOriginal
     THEN <<"closeOrig">> \o (IF opts.MakeOriginalPublic THEN <<"acl">> ELSE <<>>)
     ELSE <<>>)
    \o (IF ~opts.KeepIntermediateFiles THEN <<"delete">> ELSE <<>>)

\* The closures TranscribeURL defers after a successful fetch, in the order
\* of the defer statements.
SetupDefers(opts) ==
    (IF opts.StoreOriginal
     THEN (IF opts.MakeOriginalPublic THEN <<"acl">> ELSE <<>>) \o <<"closeOrig">>
     ELSE <<>>)
    \o (IF ~opts.KeepIntermediateFiles THEN <<"delete">> ELSE <<>>)

\* An entry of the history: the call, what it was made on, how it ended.
Op(op, obj, res) == [op |-> op, obj |-> obj, res |-> res]

\* Object names, the original's writer and deferred closures, the channel writers.
Setup ==
    /\ pc = "setup"
    /\ defers' = defers \o SetupDefers(c)
    /\ writers' = [o \in Objects |->
                     IF o = "orig" /\ ~c.StoreOriginal
                     THEN NoWriter
                     ELSE [state |-> "open", buf |-> <<>>]]
    /\ ops' = ops \o (IF c.StoreOriginal THEN <<Op("NewWriter", "orig", "ok")>> ELSE <<>>)
                  \o <<Op("NewWriter", "left", "ok"), Op("NewWriter", "right", "ok")>>
    /\ pc' = "splitStart"
    /\ UNCHANGED <<c, ctx, outPipe, peer, parse, resp, bucket, cmd, stdinPipe, task, grp, recvd, msgs, rerr>>

\* A slip: the error of splitWavChannels is dropped.
SplitReturnIgnoringError(failed, log) ==
    /\ ops' = Append(log, Op("splitWavChannels", "body", IF failed THEN "fail" ELSE "ok"))
    /\ pc' = "closeLeft"
    /\ UNCHANGED <<msgs, rerr>>

\* if err := splitWavChannels(...); err != nil { return nil, ... }
\* log is the history up to the return of splitWavChannels.
SplitReturn(failed, log) ==
    IF failed
    THEN /\ ops' = Append(log, Op("splitWavChannels", "body", "fail"))
         /\ Return(<<>>, <<ErrSplit>>)
    ELSE /\ ops' = Append(log, Op("splitWavChannels", "body", "ok"))
         /\ pc' = "closeLeft"
         /\ UNCHANGED <<msgs, rerr>>

\* A slip: the outputs mapped by name, cmd.Stdout = left and cmd.Stderr = right.
CmdOutputByName(fd) == IF fd = 1 THEN "left" ELSE "right"

\* The writer each output of the subprocess is mapped to: file descriptor 1
\* is cmd.Stdout, file descriptor 2 is cmd.Stderr.
CmdOutput(fd) == IF fd = 1 THEN "right" ELSE "left"

\* The channel ffmpeg writes to each output: pipe:1 gets 0.0.0, pipe:2 gets 0.0.1.
FfmpegOutput(fd) == IF fd = 1 THEN MapChannel(0) ELSE MapChannel(1)

\* cmd.StdinPipe() and cmd.Start()
SplitStart ==
    /\ pc = "splitStart"
    /\ \E outcome \in {"ok", "pipefail", "startfail"} :
         CASE outcome = "ok" ->
                /\ cmd' = [state |-> "running", stdin |-> "open", exit |-> "none",
                           consumed |-> 0]
                /\ ops' = Append(ops, Op("Start", "ffmpeg", "ok"))
                /\ pc' = "copy"
                /\ UNCHANGED <<msgs, rerr>>
           [] outcome = "pipefail" ->
                /\ SplitReturn(TRUE, ops)
                /\ UNCHANGED cmd
           [] outcome = "startfail" ->
                /\ SplitReturn(TRUE, Append(ops, Op("Start", "ffmpeg", "fail")))
                /\ UNCHANGED cmd
    /\ UNCHANGED <<c, ctx, outPipe, peer, parse, resp, defers, writers, bucket, stdinPipe, task, grp, recvd>>

\* One Read/Write round of io.Copy(w, in): a frame of resp.Body goes to stdin
\* and, through the MultiWriter, to orig.
CopyChunk ==
    /\ pc = "copy"
    /\ resp.pos < resp.len
    /\ cmd.state = "running"
    /\ stdinPipe < PipeCap
    /\ stdinPipe' = stdinPipe + 1
    /\ resp' = [resp EXCEPT !.pos = @ + 1]
    /\ writers' = IF writers["orig"].state = "open"
                  THEN [writers EXCEPT !["orig"].buf = Append(@, StereoFrame(resp.pos + 1))]
                  ELSE writers
    /\ UNCHANGED <<c, ctx, outPipe, peer, parse, pc, defers, bucket, cmd, task, grp, recvd, msgs, rerr, ops>>

\* io.Copy fails: reading resp.Body or writing stdin fails ("io"), or the
\* write to orig fails after the frame went to stdin ("orig").
\* splitWavChannels returns at once.
CopyFail ==
    /\ pc = "copy"
    /\ \E kind \in {"io", "orig"} :
         CASE kind = "io" -> UNCHANGED <<stdinPipe, resp>>
           [] kind = "orig" ->
                /\ writers["orig"].state = "open"
                /\ resp.pos < resp.len
                /\ cmd.state = "running"
                /\ stdinPipe < PipeCap
                /\ stdinPipe' = stdinPipe + 1
                /\ resp' = [resp EXCEPT !.pos = @ + 1]
    /\ SplitReturn(TRUE, ops)
    /\ UNCHANGED <<c, ctx, outPipe, peer, parse, defers, writers, bucket, cmd, task, grp, recvd>>

\* io.Copy reaches the end of resp.Body; stdin.Close()
CopyDone ==
    /\ pc = "copy"
    /\ resp.pos = resp.len
    /\ cmd' = [cmd EXCEPT !.stdin = "closed"]
    /\ pc' = "cmdWait"
    /\ UNCHANGED <<c, ctx, outPipe, peer, parse, resp, defers, writers, bucket, stdinPipe, task, grp, recvd,
                   msgs, rerr, ops>>

\* The subprocess reads a frame from stdin and writes its two channels to
\* pipe:1 and pipe:2; it blocks while an output pipe is full.
Ffmpeg ==
    /\ cmd.state = "running"
    /\ stdinPipe > 0
    /\ \A fd \in {1, 2} : Len(outPipe[fd]) < PipeCap
    /\ stdinPipe' = stdinPipe - 1
    /\ cmd' = [cmd EXCEPT !.consumed = @ + 1]
    /\ outPipe' = [fd \in {1, 2} |->
                     Append(outPipe[fd], MonoFrame(FfmpegOutput(fd), cmd.consumed + 1))]
    /\ UNCHANGED <<c, ctx, peer, parse, resp, pc, defers, writers, bucket, task, grp,
                   recvd, msgs, rerr, ops>>

\* A slip: the outputs are read only after the input was written and closed.
DrainingAfterInput == cmd.stdin = "closed"

\* cmd.Stdout and cmd.Stderr are no files, so cmd.Start() starts a goroutine
\* for each that copies the pipe to the writer until the pipe is closed.
Draining == cmd.state # "none"

\* One round of such a goroutine: a frame goes from the pipe to the writer.
Drain(fd) ==
    /\ Draining
    /\ outPipe[fd] # <<>>
    /\ outPipe' = [outPipe EXCEPT ![fd] = Tail(@)]
    /\ writers' = [writers EXCEPT ![CmdOutput(fd)].buf = Append(@, Head(outPipe[fd]))]
    /\ UNCHANGED <<c, ctx, peer, parse, resp, pc, defers, bucket, cmd, stdinPipe, task,
                   grp, recvd, msgs, rerr, ops>>

\* The subprocess exits: with status 0 once stdin is closed and all input is
\* read, or with a failure at any time (input that is no stereo wav, a kill).
FfmpegExit ==
    /\ cmd.state = "running"
    /\ \E exit \in {"zero", "nonzero"} :
         /\ exit = "zero" => cmd.stdin = "closed" /\ stdinPipe = 0
         /\ cmd' = [cmd EXCEPT !.state = "exited", !.exit = exit]
    /\ UNCHANGED <<c, ctx, outPipe, peer, parse, resp, pc, defers, writers, bucket, stdinPipe, task, grp, recvd,
                   msgs, rerr, ops>>

\* cmd.Wait(): returns once the process has exited and the copying goroutines
\* have ended; fails when the exit status is not 0 or when copying an output
\* to its writer failed.
CmdWait ==
    /\ pc = "cmdWait"
    /\ cmd.state = "exited"
    /\ \A fd \in {1, 2} : outPipe[fd] = <<>>
    /\ cmd' = [cmd EXCEPT !.state = "reaped"]
    /\ \E outcome \in {"ok", "fail"} :
         /\ outcome = "ok" => cmd.exit = "zero"
         /\ SplitReturn(outcome = "fail", Append(ops, Op("Wait", "ffmpeg", outcome)))
    /\ UNCHANGED <<c, ctx, outPipe, peer, parse, resp, defers, writers, bucket, stdinPipe, task, grp, recvd>>

\* Writer.Close(): the object exists, with what was written, once Close succeeds.
CloseWriter(b, o, buf, outcome) ==
    IF outcome = "ok"
    THEN [b EXCEPT ![o] = [exists |-> TRUE, content |-> buf, public |-> FALSE]]
    ELSE b

\* if err := leftW.Close(); err != nil { rightW.Close(); return nil, ... }
CloseLeft ==
    /\ pc = "closeLeft"
    /\ \E outcome \in {"ok", "fail"}, other \in {"ok", "fail"} :
         IF outcome = "ok"
         THEN /\ other = "ok"
              /\ CtxAllows(outcome)
              /\ bucket' = CloseWriter(bucket, "left", writers["left"].buf, "ok")
              /\ writers' = [writers EXCEPT !["left"].state = "closed"]
              /\ ops' = Append(ops, Op("Close", "left", "ok"))
              /\ pc' = "closeRight"
              /\ UNCHANGED <<msgs, rerr>>
         ELSE /\ CtxAllows(other)
              /\ bucket' = CloseWriter(bucket, "right", writers["right"].buf, other)
              /\ writers' = [writers EXCEPT !["left"].state = "closed",
                                            !["right"].state = "closed"]
              /\ ops' = ops \o <<Op("Close", "left", "fail"), Op("Close", "right", other)>>
              /\ Return(<<>>, <<ErrCloseLeft>>)
    /\ UNCHANGED <<c, ctx, outPipe, peer, parse, resp, defers, cmd, stdinPipe, task, grp, recvd>>

\* if err := rightW.Close(); err != nil { return nil, ... }
CloseRight ==
    /\ pc = "closeRight"
    /\ \E outcome \in {"ok", "fail"} :
         /\ CtxAllows(outcome)
         /\ bucket' = CloseWriter(bucket, "right", writers["right"].buf, outcome)
         /\ writers' = [writers EXCEPT !["right"].state = "closed"]
         /\ ops' = Append(ops, Op("Close", "right", outcome))
         /\ IF outcome = "ok"
            THEN pc' = "go" /\ UNCHANGED <<msgs, rerr>>
            ELSE Return(<<>>, <<ErrCloseRight>>)
    /\ UNCHANGED <<c, ctx, outPipe, peer, parse, resp, defers, cmd, stdinPipe, task, grp, recvd>>

\* The channel heard in a staged object: that of its samples.
ObjectAudio(content) ==
    IF content # <<>> /\ \A i \in 1..Len(content) : content[i].ch = content[1].ch
    THEN content[1].ch
    ELSE "mixed"

\* speechpb results. A transcript is what was said on the channel the
\* recognizer heard; a word's StartTime is a pointer: <<>> is nil.
Word(start) == [StartTime |-> start]
Alternative(spk, text, words) ==
    [Transcript |-> [spk |-> spk, text |-> text], Words |-> words]
ResultShapes(spk) ==
    { [Alternatives |-> <<>>],
      [Alternatives |-> <<Alternative(spk, "a", <<>>)>>],
      [Alternatives |-> <<Alternative(spk, "a", <<Word(<<1>>), Word(<<2>>)>>)>>],
      [Alternatives |-> <<Alternative(spk, "b", <<Word(<<2>>)>>),
                          Alternative(spk, "c", <<Word(<<0>>)>>)>>],
      [Alternatives |-> <<Alternative(spk, "d", <<Word(<<>>)>>)>>] }

RECURSIVE SeqsUpTo(_, _)
SeqsUpTo(S, n) ==
    IF n = 0 THEN {<<>>}
    ELSE LET shorter == SeqsUpTo(S, n - 1)
         IN  shorter \cup {Append(q, x) : q \in shorter, x \in S}

\* The responses op.Wait may return for audio of the given channel.
Responses(spk) == SeqsUpTo(ResultShapes(spk), MaxResults)

\* A slip: the offset is taken from the last word of the alternative.
RECURSIVE ParseResultsLastWord(_, _, _)
ParseResultsLastWord(results, chn, acc) ==
    IF results = <<>>
    THEN [msgs |-> acc, err |-> "nil"]
    ELSE LET result == Head(results)
         IN  IF Len(result.Alternatives) = 0
                \/ Len(result.Alternatives[1].Words) = 0
             THEN ParseResultsLastWord(Tail(results), chn, acc)
             ELSE LET alt0 == result.Alternatives[1]
                      word0 == alt0.Words[Len(alt0.Words)]
                  IN  IF word0.StartTime = <<>>
                      THEN [msgs |-> <<>>, err |-> "converting word duration"]
                      ELSE ParseResultsLastWord(Tail(results), chn,
                             Append(acc, [Channel |-> chn,
                                          Offset |-> word0.StartTime[1],
                                          Text |-> alt0.Transcript]))

\* The loop of transcribeChannel over resp.Results.
RECURSIVE ParseResults(_, _, _)
ParseResults(results, chn, acc) ==
    IF results = <<>>
    THEN [msgs |-> acc, err |-> "nil"]
    ELSE LET result == Head(results)
         IN  IF Len(result.Alternatives) = 0
                \/ Len(result.Alternatives[1].Words) = 0
             THEN ParseResults(Tail(results), chn, acc)
             ELSE LET alt0 == result.Alternatives[1]
                      word0 == alt0.Words[1]
                  IN  IF word0.StartTime = <<>>
                      THEN [msgs |-> <<>>, err |-> "converting word duration"]
                      ELSE ParseResults(Tail(results), chn,
                             Append(acc, [Channel |-> chn,
                                          Offset |-> word0.StartTime[1],
                                          Text |-> alt0.Transcript]))

\* transcribeChannel on its own: a response of the recognizer and a channel
\* discriminator, before the loop has run.
InitParse ==
    /\ Constructed
    /\ peer = "absent"
    /\ parse \in {[results |-> r, chn |-> b, out |-> <<>>] :
                    r \in Responses(MapChannel(0)) \cup Responses(MapChannel(1)),
                    b \in BOOLEAN}

\* The loop runs over the response; out holds what transcribeChannel returns.
ParseResponse ==
    /\ parse.out = <<>>
    /\ parse' = [parse EXCEPT !.out = <<ParseResults(parse.results, parse.chn, <<>>)>>]
    /\ UNCHANGED <<c, resp, pc, defers, writers, bucket, cmd, stdinPipe, task, grp,
                   recvd, msgs, rerr, ops, ctx, outPipe, peer>>

SpecParse == InitParse /\ [][ParseResponse]_vars

\* The arguments of the two transcribeChannel calls: the object behind the
\* uri and chn.
TaskObject(s) == s
TaskChannel(s) == s = "left"

\* transcribeGrp.Go(...) twice
Go ==
    /\ pc = "go"
    /\ task' = [s \in Sides |-> [NoTask EXCEPT !.pc = "submit"]]
    /\ pc' = "recvLeft"
    /\ UNCHANGED <<c, ctx, outPipe, peer, parse, resp, defers, writers, bucket, cmd, stdinPipe, grp, recvd,
                   msgs, rerr, ops>>

\* A slip: the error branch of a goroutine returns without sending.
AfterTranscribeNoSendOnError(err) == IF err # "nil" THEN "return" ELSE "send"

\* Where a goroutine goes once transcribeChannel has returned: both branches
\* of the closure send on the channel (nil with an error) before they return.
AfterTranscribe(err) == "send"

\* c.LongRunningRecognize(ctx, ...) in transcribeChannel
TaskSubmit(s) ==
    /\ task[s].pc = "submit"
    /\ \E outcome \in {"ok", "fail"} :
         /\ CtxAllows(outcome)
         /\ task' = [task EXCEPT ![s] =
                IF outcome = "ok"
                THEN [@ EXCEPT !.pc = "await"]
                ELSE [@ EXCEPT !.pc = AfterTranscribe("starting longrunning recognize"),
                               !.err = "starting longrunning recognize"]]
         /\ ops' = Append(ops, Op("LongRunningRecognize", TaskObject(s), outcome))
    /\ UNCHANGED <<c, ctx, outPipe, peer, parse, resp, pc, defers, writers, bucket, cmd, stdinPipe, grp, recvd,
                   msgs, rerr>>

\* op.Wait(ctx) and the parsing of the response in transcribeChannel
TaskAwait(s) ==
    /\ task[s].pc = "await"
    /\ LET obj == bucket[TaskObject(s)]
           spk == ObjectAudio(obj.content)
       IN  \/ /\ task' = [task EXCEPT ![s] =
                     [@ EXCEPT !.pc = AfterTranscribe("waiting on longrunning recognize"),
                               !.audio = spk,
                               !.err = "waiting on longrunning recognize"]]
              /\ ops' = Append(ops, Op("Wait", TaskObject(s), "fail"))
           \/ /\ obj.exists
              /\ CtxAllows("ok")
              /\ \E r \in Responses(spk) :
                   LET parsed == ParseResults(r, TaskChannel(s), <<>>)
                   IN  task' = [task EXCEPT ![s] =
                          [@ EXCEPT !.pc = AfterTranscribe(parsed.err), !.audio = spk,
                                    !.msgs = parsed.msgs, !.err = parsed.err]]
              /\ ops' = Append(ops, Op("Wait", TaskObject(s), "ok"))
    /\ UNCHANGED <<c, ctx, outPipe, peer, parse, resp, pc, defers, writers, bucket, cmd, stdinPipe, grp, recvd,
                   msgs, rerr>>

\* What a goroutine sends on its channel: nil when transcribeChannel failed.
Sent(t) == IF t.err # "nil" THEN <<>> ELSE t.msgs

\* <-leftMsgs meets the send of the left goroutine (the channel is unbuffered).
RecvLeft ==
    /\ pc = "recvLeft"
    /\ task["left"].pc = "send"
    /\ recvd' = [recvd EXCEPT !["left"] = Sent(task["left"])]
    /\ task' = [task EXCEPT !["left"].pc = "return"]
    /\ pc' = "recvRight"
    /\ UNCHANGED <<c, ctx, outPipe, peer, parse, resp, defers, writers, bucket, cmd, stdinPipe, grp, msgs, rerr,
                   ops>>

\* <-rightMsgs meets the send of the right goroutine.
RecvRight ==
    /\ pc = "recvRight"
    /\ task["right"].pc = "send"
    /\ recvd' = [recvd EXCEPT !["right"] = Sent(task["right"])]
    /\ task' = [task EXCEPT !["right"].pc = "return"]
    /\ pc' = "wait"
    /\ UNCHANGED <<c, ctx, outPipe, peer, parse, resp, defers, writers, bucket, cmd, stdinPipe, grp, msgs, rerr,
                   ops>>

\* The goroutine returns: errgroup keeps the first non-nil error.
TaskReturn(s) ==
    /\ task[s].pc = "return"
    /\ task' = [task EXCEPT ![s].pc = "done"]
    /\ grp' = IF grp = "nil" /\ task[s].err # "nil"
              THEN s \o " channel: " \o task[s].err
              ELSE grp
    /\ UNCHANGED <<c, ctx, outPipe, peer, parse, resp, pc, defers, writers, bucket, cmd, stdinPipe, recvd, msgs,
                   rerr, ops>>

\* A slip: the wait ends with the first goroutine that returns.
GroupAnyDone == \E s \in Sides : task[s].pc = "done"

\* transcribeGrp.Wait() returns once every goroutine has returned.
GroupDone == \A s \in Sides : task[s].pc = "done"

\* A slip: the operands of append swapped.
JoinMsgsRightFirst(l, r) == r \o l

\* append(<-leftMsgs, <-rightMsgs...)
JoinMsgs(l, r) == l \o r

\* return append(...), errors.Wrap(transcribeGrp.Wait(), "transcribing")
Wait ==
    /\ pc = "wait"
    /\ GroupDone
    /\ Return(JoinMsgs(recvd["left"], recvd["right"]),
              IF grp = "nil" THEN <<>> ELSE <<ErrTranscribing(grp)>>)
    /\ UNCHANGED <<c, ctx, outPipe, peer, parse, resp, defers, writers, bucket, cmd, stdinPipe, task, grp, recvd,
                   ops>>

Top == defers[Len(defers)]
Pop == SubSeq(defers, 1, Len(defers) - 1)

\* How Object.Delete may end.
DeleteOutcomes(obj) == IF obj.exists THEN {"ok", "fail"} ELSE {"notfound", "fail"}

\* A slip: the comparison with storage.ErrObjectNotExist left out.
DeleteFailedAnyError(outcome) == outcome # "ok"

\* err != nil && err != storage.ErrObjectNotExist
DeleteFailed(outcome) == outcome # "ok" /\ outcome # "notfound"

DeleteObject(b, o, outcome) == IF outcome = "ok" THEN [b EXCEPT ![o] = NoObject] ELSE b

\* The deferred cleanup of the channel objects: leftObj.Delete, then rightObj.Delete.
DeferDelete ==
    /\ pc = "defers" /\ defers # <<>> /\ Top = "delete"
    /\ \E oL \in DeleteOutcomes(bucket["left"]), oR \in DeleteOutcomes(bucket["right"]) :
         LET err1 == IF DeleteFailed(oL) THEN MultiAppend(rerr, ErrDeletingLeft) ELSE rerr
             err2 == IF DeleteFailed(oR) THEN MultiAppend(err1, ErrDeletingRight) ELSE err1
         IN  /\ CtxAllows(oL) /\ CtxAllows(oR)
             /\ bucket' = DeleteObject(DeleteObject(bucket, "left", oL), "right", oR)
             /\ rerr' = err2
             /\ ops' = ops \o <<Op("Delete", "left", oL), Op("Delete", "right", oR)>>
    /\ defers' = Pop
    /\ UNCHANGED <<c, ctx, outPipe, peer, parse, resp, pc, writers, cmd, stdinPipe, task, grp, recvd, msgs>>

\* The deferred origObjW.Close()
DeferCloseOrig ==
    /\ pc = "defers" /\ defers # <<>> /\ Top = "closeOrig"
    /\ \E outcome \in {"ok", "fail"} :
         /\ CtxAllows(outcome)
         /\ bucket' = CloseWriter(bucket, "orig", writers["orig"].buf, outcome)
         /\ rerr' = IF outcome # "ok" THEN MultiAppend(rerr, ErrSaving) ELSE rerr
         /\ ops' = Append(ops, Op("Close", "orig", outcome))
    /\ writers' = [writers EXCEPT !["orig"].state = "closed"]
    /\ defers' = Pop
    /\ UNCHANGED <<c, ctx, outPipe, peer, parse, resp, pc, cmd, stdinPipe, task, grp, recvd, msgs>>

\* The deferred origObj.ACL().Set(ctx, storage.AllUsers, storage.RoleReader)
DeferACL ==
    /\ pc = "defers" /\ defers # <<>> /\ Top = "acl"
    /\ \E outcome \in {"ok", "fail"} :
         /\ outcome = "ok" => bucket["orig"].exists
         /\ CtxAllows(outcome)
         /\ bucket' = IF outcome = "ok"
                      THEN [bucket EXCEPT !["orig"].public = TRUE]
                      ELSE bucket
         /\ rerr' = IF outcome # "ok" THEN MultiAppend(rerr, ErrMakingPublic) ELSE rerr
         /\ ops' = Append(ops, Op("ACLSet", "orig", outcome))
    /\ defers' = Pop
    /\ UNCHANGED <<c, ctx, outPipe, peer, parse, resp, pc, writers, cmd, stdinPipe, task, grp, recvd, msgs>>

\* The deferred resp.Body.Close()
DeferBodyClose ==
    /\ pc = "defers" /\ defers # <<>> /\ Top = "bodyClose"
    /\ resp' = [resp EXCEPT !.body = "closed"]
    /\ defers' = Pop
    /\ UNCHANGED <<c, ctx, outPipe, peer, parse, pc, writers, bucket, cmd, stdinPipe, task, grp, recvd, msgs,
                   rerr, ops>>

\* TranscribeURL hands msgs and rerr to its caller.
Returned ==
    /\ pc = "defers" /\ defers = <<>>
    /\ pc' = "returned"
    /\ UNCHANGED <<c, ctx, outPipe, peer, parse, resp, defers, writers, bucket, cmd, stdinPipe, task, grp, recvd,
                   msgs, rerr, ops>>

Next ==
    \/ Cancel
    \/ Get
    \/ Setup
    \/ SplitStart
    \/ CopyChunk
    \/ CopyFail
    \/ CopyDone
    \/ Ffmpeg
    \/ \E fd \in {1, 2} : Drain(fd)
    \/ FfmpegExit
    \/ CmdWait
    \/ CloseLeft
    \/ CloseRight
    \/ Go
    \/ \E s \in Sides : TaskSubmit(s)
    \/ \E s \in Sides : TaskAwait(s)
    \/ RecvLeft
    \/ RecvRight
    \/ \E s \in Sides : TaskReturn(s)
    \/ Wait
    \/ DeferDelete
    \/ DeferCloseOrig
    \/ DeferACL
    \/ DeferBodyClose
    \/ Returned

Spec == Init /\ [][Next]_vars

\* A second call of TranscribeURL on the same Client, bucket and name, for
\* another recording, reduced to what it does to the bucket. It has split its
\* recording and is about to close its writers. The Client does not keep the
\* intermediate files.
InitTwoCalls ==
    /\ Constructed
    /\ ~c.KeepIntermediateFiles
    /\ peer = "closeLeft"
    /\ parse = "none"

\* What the second call wrote to its writer o: a frame of its own recording.
PeerAudio(o) ==
    LET fd == CHOOSE d \in {1, 2} : CmdOutput(d) = o
    IN  <<MonoFrame(FfmpegOutput(fd), MaxChunks + 1)>>

\* leftW.Close() of the second call: bkt.Object(leftName) is the same object.
PeerCloseLeft ==
    /\ peer = "closeLeft"
    /\ bucket' = CloseWriter(bucket, "left", PeerAudio("left"), "ok")
    /\ peer' = "closeRight"
    /\ UNCHANGED <<c, resp, pc, defers, writers, cmd, stdinPipe, task, grp,
                   recvd, msgs, rerr, ops, ctx, outPipe, parse>>

\* rightW.Close() of the second call
PeerCloseRight ==
    /\ peer = "closeRight"
    /\ bucket' = CloseWriter(bucket, "right", PeerAudio("right"), "ok")
    /\ peer' = "recognize"
    /\ UNCHANGED <<c, resp, pc, defers, writers, cmd, stdinPipe, task, grp,
                   recvd, msgs, rerr, ops, ctx, outPipe, parse>>

\* The two recognition jobs of the second call have read the objects and ended.
PeerRecognize ==
    /\ peer = "recognize"
    /\ peer' = "cleanup"
    /\ UNCHANGED <<c, resp, pc, defers, writers, bucket, cmd, stdinPipe, task, grp,
                   recvd, msgs, rerr, ops, ctx, outPipe, parse>>

\* The deferred cleanup of the second call: leftObj.Delete, rightObj.Delete.
PeerCleanup ==
    /\ peer = "cleanup"
    /\ bucket' = IF c.KeepIntermediateFiles
                 THEN bucket
                 ELSE DeleteObject(DeleteObject(bucket, "left", "ok"), "right", "ok")
    /\ peer' = "done"
    /\ UNCHANGED <<c, resp, pc, defers, writers, cmd, stdinPipe, task, grp,
                   recvd, msgs, rerr, ops, ctx, outPipe, parse>>

NextTwoCalls ==
    \/ Next
    \/ PeerCloseLeft
    \/ PeerCloseRight
    \/ PeerRecognize
    \/ PeerCleanup

SpecTwoCalls == InitTwoCalls /\ [][NextTwoCalls]_vars

(***************************************************************************)
(* Properties of TranscribeURL.                                            *)
(***************************************************************************)

Did(op, obj, res) == \E i \in DOMAIN ops : ops[i] = Op(op, obj, res)
Called(op, obj) == \E i \in DOMAIN ops : ops[i].op = op /\ ops[i].obj = obj
Times(op, obj) == Cardinality({i \in DOMAIN ops : ops[i].op = op /\ ops[i].obj = obj})
Range(q) == {q[i] : i \in DOMAIN q}

\* The parallel stage was reached: the goroutines were started.
RanParallel == \E s \in Sides : task[s].pc # "idle"
RecognitionFailed(s) == task[s].pc \in {"send", "return", "done"} /\ task[s].err # "nil"
RecognitionSucceeded(s) == task[s].pc \in {"send", "return", "done"} /\ task[s].err = "nil"
SplitFailed == Did("splitWavChannels", "body", "fail")

\* The cleanup steps found failed in the history, as the errors they add.
IsFailedCleanup(o) ==
    /\ o.res = "fail"
    /\ o.op \in {"Delete", "ACLSet"} \/ (o.op = "Close" /\ o.obj = "orig")
CleanupError(o) ==
    CASE o.op = "Delete" /\ o.obj = "left" -> ErrDeletingLeft
      [] o.op = "Delete" /\ o.obj = "right" -> ErrDeletingRight
      [] o.op = "Close" -> ErrSaving
      [] o.op = "ACLSet" -> ErrMakingPublic
CleanupErrors ==
    LET failed == SelectSeq(ops, IsFailedCleanup)
    IN  [i \in 1..Len(failed) |-> CleanupError(failed[i])]
IsFatal(e) == e \notin {ErrDeletingLeft, ErrDeletingRight, ErrSaving, ErrMakingPublic}

\* C1: if the recognition of either channel fails, TranscribeURL returns a
\* non-nil error and an empty transcript, without the messages of the channel
\* that succeeded.
C1_RecognitionFailureNoTranscript ==
    (pc = "returned" /\ \E s \in Sides : RecognitionFailed(s))
        => rerr # <<>> /\ msgs = <<>>

\* C2: once the parallel stage is reached, both tasks are started and each has
\* run to its end when TranscribeURL returns: each submitted exactly once,
\* each that submitted successfully awaited its job, each goroutine returned,
\* whatever the other did.
C2_BothTasksRunToCompletion ==
    /\ RanParallel => \A s \in Sides : task[s].pc # "idle"
    /\ (pc \in {"defers", "returned"} /\ RanParallel) =>
         \A s \in Sides :
            /\ task[s].pc = "done"
            /\ Times("LongRunningRecognize", TaskObject(s)) = 1
            /\ Did("LongRunningRecognize", TaskObject(s), "ok")
                 => Times("Wait", TaskObject(s)) = 1

C2_Witness ==
    /\ pc = "returned"
    /\ Did("LongRunningRecognize", "left", "fail")
    /\ Did("Wait", "right", "ok")
    /\ task["right"].msgs # <<>>

\* C3: after a return with a nil error, the left and right objects do not
\* exist when KeepIntermediateFiles is false; when it is true both exist and
\* no delete was issued.
C3_IntermediatesAfterSuccess ==
    (pc = "returned" /\ rerr = <<>>) =>
        IF ~c.KeepIntermediateFiles
        THEN ~bucket["left"].exists /\ ~bucket["right"].exists
        ELSE /\ bucket["left"].exists /\ bucket["right"].exists
             /\ ~Called("Delete", "left") /\ ~Called("Delete", "right")

C3_Witness ==
    /\ pc = "returned" /\ rerr = <<>>
    /\ ~c.KeepIntermediateFiles
    /\ Did("Delete", "left", "ok") /\ Did("Delete", "right", "ok")
    /\ msgs # <<>>

\* C4: with StoreOriginal and MakeOriginalPublic set, every return after a
\* successful http.Get has made the ACL call exactly once; when it failed its
\* error is the last one appended to rerr, and msgs is what the return
\* statement set.
C4_MakePublicOnEveryPath ==
    (pc = "returned" /\ c.StoreOriginal /\ c.MakeOriginalPublic
       /\ ~GetFails(resp.status)) =>
        /\ Times("ACLSet", "orig") = 1
        /\ Did("ACLSet", "orig", "fail") =>
             rerr # <<>> /\ rerr[Len(rerr)] = ErrMakingPublic
        /\ Did("ACLSet", "orig", "ok") => ErrMakingPublic \notin Range(rerr)
        /\ msgs = IF RanParallel
                  THEN Sent(task["left"]) \o Sent(task["right"])
                  ELSE <<>>

C4_Witness ==
    /\ pc = "returned" /\ c.StoreOriginal /\ c.MakeOriginalPublic
    /\ RecognitionFailed("left") /\ RecognitionSucceeded("right")
    /\ Did("ACLSet", "orig", "fail")
    /\ msgs # <<>>

\* C5: a recognition job is submitted only after splitWavChannels returned nil
\* and both channel writers closed without error; when the split fails
\* TranscribeURL returns a non-nil error, an empty transcript, and nothing
\* was submitted.
C5_NoSubmissionBeforeStaging ==
    /\ (\E s \in Sides : Called("LongRunningRecognize", TaskObject(s))) =>
         /\ Did("splitWavChannels", "body", "ok")
         /\ Did("Close", "left", "ok")
         /\ Did("Close", "right", "ok")
    /\ SplitFailed => \A s \in Sides : ~Called("LongRunningRecognize", TaskObject(s))
    /\ (pc = "returned" /\ SplitFailed) => rerr # <<>> /\ msgs = <<>>

C5_Witness ==
    /\ pc = "returned"
    /\ SplitFailed
    /\ Did("Start", "ffmpeg", "ok")

\* C6: when both recognitions succeed, the transcript is returned whole, rerr
\* holds exactly one entry for each cleanup step that failed, in the order of
\* the steps, and every cleanup step was attempted whatever the others did.
C6_CleanupFailuresAggregated ==
    (pc = "returned" /\ \A s \in Sides : RecognitionSucceeded(s)) =>
        /\ msgs = task["left"].msgs \o task["right"].msgs
        /\ rerr = CleanupErrors
        /\ ~c.KeepIntermediateFiles =>
             Times("Delete", "left") = 1 /\ Times("Delete", "right") = 1
        /\ (c.StoreOriginal /\ c.MakeOriginalPublic) => Times("ACLSet", "orig") = 1

C6_Witness ==
    /\ pc = "returned"
    /\ \A s \in Sides : RecognitionSucceeded(s)
    /\ msgs # <<>>
    /\ Did("Delete", "left", "fail")
    /\ Called("Delete", "right")
    /\ Did("ACLSet", "orig", "fail")
    /\ Len(rerr) >= 2

\* C7: every returned message carries the Channel value the Message
\* documentation gives to the physical channel it was recognized from.
C7_ChannelTagMatchesAudio ==
    \A i \in DOMAIN msgs :
        /\ msgs[i].Text.spk \in {MapChannel(0), MapChannel(1)}
        /\ msgs[i].Channel = DocChannel(msgs[i].Text.spk)

C7_Witness ==
    /\ pc = "returned"
    /\ \E i, j \in DOMAIN msgs :
         /\ msgs[i].Channel /\ msgs[i].Text.spk = MapChannel(1)
         /\ ~msgs[j].Channel /\ msgs[j].Text.spk = MapChannel(0)

C9_NotFoundDeleteIsNoError ==
    pc = "returned" =>
        /\ Did("Delete", "left", "notfound") => ErrDeletingLeft \notin Range(rerr)
        /\ Did("Delete", "right", "notfound") => ErrDeletingRight \notin Range(rerr)
        /\ rerr = SelectSeq(rerr, IsFatal) \o CleanupErrors

C9_Witness ==
    /\ pc = "returned"
    /\ Did("Delete", "left", "notfound")
    /\ Did("Delete", "right", "ok")
    /\ rerr = <<ErrCloseLeft>>

\* C10: if fetching the recording fails, by a network failure or by an HTTP
\* failure status, TranscribeURL returns a non-nil error and an empty
\* transcript, and no storage, subprocess or recognizer call was made.
C10_FetchFailureTouchesNothing ==
    (pc = "returned" /\ resp.status \in {"neterr", "badstatus"}) =>
        rerr # <<>> /\ msgs = <<>> /\ ops = <<>>

\* The steps TranscribeURL and its goroutines take by themselves, as opposed
\* to the steps that wait for the server of the url (Get), for the ffmpeg
\* process (Ffmpeg, FfmpegExit), or for an I/O failure (CopyFail). With ctx
\* cancelled, a call that was given ctx ends by itself, with the error of ctx.
OwnStep ==
    \/ Setup \/ SplitStart \/ CopyChunk \/ CopyDone \/ CmdWait
    \/ \E fd \in {1, 2} : Drain(fd)
    \/ CloseLeft \/ CloseRight \/ Go
    \/ \E s \in Sides : TaskSubmit(s)
    \/ \E s \in Sides : ctx = "cancelled" /\ TaskAwait(s)
    \/ RecvLeft \/ RecvRight
    \/ \E s \in Sides : TaskReturn(s)
    \/ Wait
    \/ DeferDelete \/ DeferCloseOrig \/ DeferACL \/ DeferBodyClose \/ Returned

\* C11: once ctx is cancelled, TranscribeURL never waits for the fetch, the
\* subprocess or a remote job to finish on its own: until it has returned, it
\* has a step of its own to take.
C11_CancelledCallNeverWaits ==
    (ctx = "cancelled" /\ pc # "returned") => ENABLED OwnStep

\* The steps of the split when nothing fails: the copy loop, the process, the
\* copying goroutines, the wait.
SplitStep ==
    \/ CopyChunk \/ CopyDone \/ Ffmpeg
    \/ \E fd \in {1, 2} : Drain(fd)
    \/ CmdWait
\* The process can exit with status 0.
CanExitZero == cmd.state = "running" /\ cmd.stdin = "closed" /\ stdinPipe = 0
\* splitWavChannels is copying or waiting, and the process has not failed
\* under the copy loop.
Splitting == pc \in {"copy", "cmdWait"} /\ (cmd.state = "running" \/ pc = "cmdWait")

\* The scheduler runs every goroutine and the process that can take a step.
FairSplit ==
    /\ Spec
    /\ WF_vars(CopyChunk) /\ WF_vars(CopyDone) /\ WF_vars(Ffmpeg)
    /\ WF_vars(FfmpegExit) /\ WF_vars(CmdWait)
    /\ \A fd \in {1, 2} : WF_vars(Drain(fd))

\* The wait comes after the input, and a frame in an output pipe can be
\* copied to its writer whatever the copy loop is doing.
C15_Ordering ==
    /\ pc = "cmdWait" => cmd.stdin = "closed" /\ resp.pos = resp.len
    /\ Called("Wait", "ffmpeg") => cmd.stdin = "closed" /\ resp.pos = resp.len
    /\ (cmd.state # "none" /\ \E fd \in {1, 2} : outPipe[fd] # <<>>) =>
         \E fd \in {1, 2} : ENABLED Drain(fd)
    /\ Splitting => (ENABLED SplitStep) \/ CanExitZero

\* C15: splitWavChannels waits for the process only after the whole input
\* was written and stdin closed, the outputs are copied to the writers while
\* the input is written, the split is never stuck, and once the input is
\* being copied the split ends, unless the process fails under the copy loop.
C15_SplitTerminates ==
    /\ []C15_Ordering
    /\ (pc = "copy") ~> (pc \notin {"copy", "cmdWait"} \/ cmd.exit = "nonzero")

\* The stdin pipe and the output pipes are full, input is left, and the copy
\* loop goes on because the outputs are being copied.
C15_Witness ==
    /\ pc = "copy"
    /\ resp.pos < resp.len
    /\ stdinPipe = PipeCap
    /\ \A fd \in {1, 2} : Len(outPipe[fd]) = PipeCap

\* C13: every writer TranscribeURL opened is closed when it returns.
C13_SinksClosedAtReturn ==
    pc = "returned" => \A o \in Objects : writers[o].state \in {"nil", "closed"}

\* C16: the writer passed as left receives only samples of channel 0.0.0, the
\* writer passed as right only samples of channel 0.0.1, and orig the frames
\* of the input, in order.
C16_ChannelsRoutedByName ==
    /\ \A i \in DOMAIN writers["left"].buf : writers["left"].buf[i].ch = MapChannel(0)
    /\ \A i \in DOMAIN writers["right"].buf : writers["right"].buf[i].ch = MapChannel(1)
    /\ \A i \in DOMAIN writers["orig"].buf : writers["orig"].buf[i] = StereoFrame(i)

\* A recognition task is in flight from its start to its return.
InFlight(s) == task[s].pc \notin {"idle", "done"}

\* C17: a channel object is deleted only when no recognition task is in
\* flight and after every recognizer call in the history; an object a job has
\* still to read exists; and with KeepIntermediateFiles false every return
\* after a successful http.Get has issued both deletes, once each.
C17_DeleteAfterRecognition ==
    /\ (\E o \in Sides : Called("Delete", o)) => \A s \in Sides : ~InFlight(s)
    /\ \A i, j \in DOMAIN ops :
         (ops[i].op = "Delete" /\ ops[j].op \in {"LongRunningRecognize", "Wait"}
            /\ ops[j].obj \in Sides) => j < i
    /\ \A s \in Sides :
         task[s].pc \in {"submit", "await"} => bucket[TaskObject(s)].exists
    /\ (pc = "returned" /\ ~GetFails(resp.status)) =>
         \A o \in Sides :
            Times("Delete", o) = IF c.KeepIntermediateFiles THEN 0 ELSE 1

C17_Witness ==
    /\ pc = "returned"
    /\ Did("Wait", "left", "ok") /\ Did("Wait", "right", "fail")
    /\ Did("Delete", "left", "ok") /\ Did("Delete", "right", "ok")

\* C19: the ACL call is made only with StoreOriginal and MakeOriginalPublic
\* set, after the close of the original's writer, which comes after the
\* deletes of the channel objects; with StoreOriginal false nothing is done
\* on the original object.
C19_MakePublicAfterClose ==
    /\ Called("ACLSet", "orig") =>
         /\ c.StoreOriginal /\ c.MakeOriginalPublic
         /\ writers["orig"].state = "closed"
         /\ \E i, j \in DOMAIN ops :
              /\ i < j
              /\ ops[i].op = "Close" /\ ops[i].obj = "orig"
              /\ ops[j].op = "ACLSet"
    /\ \A i, j \in DOMAIN ops :
         (ops[i].op = "Delete" /\ ops[j].obj = "orig"
            /\ ops[j].op \in {"Close", "ACLSet"}) => i < j
    /\ ~c.StoreOriginal =>
         /\ writers["orig"] = NoWriter
         /\ bucket["orig"] = NoObject
         /\ \A i \in DOMAIN ops : ops[i].obj # "orig"

C19_Witness ==
    /\ pc = "returned"
    /\ Did("Delete", "left", "ok")
    /\ Did("Close", "orig", "ok")
    /\ Did("ACLSet", "orig", "ok")
    /\ bucket["orig"].public

\* C20: once the process was started, splitWavChannels returns only with
\* stdin closed and the process waited on.
C20_ProcessReaped ==
    (Did("Start", "ffmpeg", "ok") /\ Called("splitWavChannels", "body")) =>
        cmd.stdin = "closed" /\ cmd.state = "reaped"

\* The steps of the parallel stage: the two goroutines and the orchestrator.
ParallelStep ==
    \/ \E s \in Sides : TaskSubmit(s) \/ TaskAwait(s) \/ TaskReturn(s)
    \/ RecvLeft \/ RecvRight \/ Wait

\* The steps from the start of the goroutines to the return of TranscribeURL.
StageStep ==
    \/ ParallelStep
    \/ DeferDelete \/ DeferCloseOrig \/ DeferACL \/ DeferBodyClose \/ Returned

InParallelStage == pc \in {"recvLeft", "recvRight", "wait"}

\* The number of steps a goroutine, and the whole call, has at most left.
TaskRank(s) ==
    CASE task[s].pc = "submit" -> 4
      [] task[s].pc = "await" -> 3
      [] task[s].pc = "send" -> 2
      [] task[s].pc = "return" -> 1
      [] OTHER -> 0
StageRank ==
    TaskRank("left") + TaskRank("right") + Len(defers)
    + (CASE pc = "recvLeft" -> 4
         [] pc = "recvRight" -> 3
         [] pc = "wait" -> 2
         [] pc = "defers" -> 1
         [] OTHER -> 0)

C18_NoneBlocked ==
    /\ (InParallelStage \/ pc = "defers") => ENABLED StageStep
    /\ InParallelStage => ENABLED ParallelStep
    /\ ~InParallelStage => \A s \in Sides : task[s].pc \in {"idle", "done"}
    /\ pc = "recvRight" => task["left"].pc \in {"return", "done"}
    /\ pc = "wait" => \A s \in Sides : task[s].pc \in {"return", "done"}

\* A send happens once, and only as the rendezvous with the receive of the
\* orchestrator from that goroutine's channel.
C18_SendOnce ==
    \A s \in Sides :
       /\ (task[s].pc = "send" /\ task'[s].pc # "send") =>
             /\ pc = (IF s = "left" THEN "recvLeft" ELSE "recvRight")
             /\ pc' # pc
             /\ task'[s].pc = "return"
             /\ recvd'[s] = (IF task[s].err # "nil" THEN <<>> ELSE task[s].msgs)
       /\ task[s].pc \in {"return", "done"} => task'[s].pc \in {"return", "done"}
       /\ task'[s].pc = "return" => task[s].pc \in {"send", "return"}

\* C18: from the start of the goroutines to the return of TranscribeURL no
\* state is stuck (a step of a goroutine or of the orchestrator is enabled),
\* every such step lowers the number of steps left, each goroutine sends
\* once, in the rendezvous with the orchestrator's receive, before it
\* returns, and no goroutine is at its send once the stage is left. With a
\* scheduler that runs a step whenever one is enabled the call so returns.
C18_ParallelStageTerminates ==
    /\ []C18_NoneBlocked
    /\ [][C18_SendOnce /\ (StageStep => StageRank' < StageRank)]_vars

C18_Witness ==
    /\ pc = "recvLeft"
    /\ task["right"].pc = "send" /\ task["right"].err = "nil"
    /\ task["left"].pc = "await"

\* A result the loop does not skip, and the message read off its first
\* alternative and that alternative's first word.
HasFirstWord(r) == Len(r.Alternatives) > 0 /\ Len(r.Alternatives[1].Words) > 0
Kept(results) == SelectSeq(results, HasFirstWord)
Converts(r) == r.Alternatives[1].Words[1].StartTime # <<>>
MessageOf(r, chn) ==
    [Channel |-> chn,
     Offset |-> r.Alternatives[1].Words[1].StartTime[1],
     Text |-> r.Alternatives[1].Transcript]
OneMessagePerKept(out, kept, chn) ==
    /\ out.err = "nil"
    /\ Len(out.msgs) = Len(kept)
    /\ \A k \in 1..Len(kept) : out.msgs[k] = MessageOf(kept[k], chn)

\* C14 as stated: every result with a first alternative that has a word
\* yields one message, in order, and no error is returned.
C14_OneMessagePerKeptResult ==
    parse.out # <<>> =>
        OneMessagePerKept(parse.out[1], Kept(parse.results), parse.chn)

\* C14: when the start time of the first word of every kept result converts,
\* the messages are those of the kept results, in order, each read off the
\* first alternative and its first word, with the channel passed in; when
\* one does not convert, transcribeChannel returns the conversion error and
\* no message.
C14_OneMessagePerKeptResultOrError ==
    parse.out # <<>> =>
        LET kept == Kept(parse.results)
            out == parse.out[1]
        IN  IF \A k \in 1..Len(kept) : Converts(kept[k])
            THEN OneMessagePerKept(out, kept, parse.chn)
            ELSE out = [msgs |-> <<>>, err |-> "converting word duration"]

C14_Witness ==
    /\ parse.out # <<>>
    /\ Len(parse.results) = 2
    /\ Len(parse.results[1].Alternatives) = 2
    /\ Len(parse.results[2].Alternatives) = 1
    /\ Len(parse.results[2].Alternatives[1].Words) = 2
    /\ Len(parse.out[1].msgs) = 2

\* An object as the writer of this call left it.
StagedByThisCall(o) ==
    bucket[o] = [exists |-> TRUE, content |-> writers[o].buf, public |-> FALSE]
StagedByPeer(o) ==
    bucket[o] = [exists |-> TRUE, content |-> PeerAudio(o), public |-> FALSE]

\* C12: with two calls running on the same bucket, an object that a
\* recognition job of a call has still to read exists and holds what that
\* call staged.
C12_StagedObjectsOwned ==
    /\ \A s \in Sides :
          task[s].pc \in {"submit", "await"} => StagedByThisCall(TaskObject(s))
    /\ peer = "recognize" => \A o \in Sides : StagedByPeer(o)
====
